---- MODULE Spec2Model ----
\* Model of the mlnative render daemon (src/rust/src/main.rs): the read-decode-
\* execute-respond loop of main, the Renderer record and its methods, the style
\* resolver load_style and the temp-file registry.  The map engine, the PNG
\* codec, the filesystem and the JSON decoder are environments whose outcomes
\* are chosen nondeterministically.
EXTENDS Integers, Sequences, FiniteSets, TLC

\* ---------------------------------------------------------------- bounds
MaxLines == 3        \* input lines read in one run
MaxViews == 2        \* views in one render_batch command

\* ------------------------------------------------------------- constants
PROTOCOL_VERSION == "1.0"
default_pixel_ratio == 1
InitialWidth == 512
InitialHeight == 512
Pid == 4242          \* std::process::id(), fixed for the run

\* Option<T>: None is the empty sequence, Some(x) the one-element sequence.
None == <<>>
Some(x) == <<x>>

\* Result<(), E> with the error kept as a message.
Ok == [ok |-> TRUE, err |-> ""]
Err(e) == [ok |-> FALSE, err |-> e]

Range(s) == {s[i] : i \in 1..Len(s)}

\* ----------------------------------------------------------- input sets
InlineStyle == <<"{", "\"version\":8}">>
UrlStyle == <<"https://", "demo.example/style.json">>

\* A style string is a sequence of text pieces; the first piece carries the
\* prefix that load_style tests.
Styles ==
  { UrlStyle,
    <<"http://">>,
    InlineStyle,
    <<"/data/style.json">> }

InitArgs(w, h, style, pixel_ratio, protocol_version) ==
  [width |-> w, height |-> h, style |-> style, pixel_ratio |-> pixel_ratio,
   protocol_version |-> protocol_version]

\* The init commands tried: every style with the default fields, then one
\* field changed at a time.
InitCommands ==
  {InitArgs(256, 256, st, default_pixel_ratio, None) : st \in Styles}
  \cup
  { InitArgs(0, 256, InlineStyle, default_pixel_ratio, None),
    InitArgs(256, 0, UrlStyle, default_pixel_ratio, None),
    InitArgs(128, 64, UrlStyle, 2, None),
    InitArgs(256, 256, InlineStyle, default_pixel_ratio, Some(PROTOCOL_VERSION)),
    InitArgs(256, 256, InlineStyle, default_pixel_ratio, Some("0.9")),
    InitArgs(128, 0, UrlStyle, 2, Some("2.0")) }

\* Views as they stand on the input line: center is [lon, lat]; bearing, pitch
\* and geojson may be left out.
RawViews ==
  { [center |-> <<1, 2>>, zoom |-> 0, bearing |-> None, pitch |-> None,
     geojson |-> None],
    [center |-> <<2, 0>>, zoom |-> 3, bearing |-> Some(1), pitch |-> Some(2),
     geojson |-> Some("src")] }

\* serde's decoding of a view: #[serde(default)] gives 0.0 for a missing
\* bearing or pitch
DecodeView(raw) ==
  [center |-> raw.center, zoom |-> raw.zoom,
   bearing |-> IF raw.bearing = None THEN 0 ELSE raw.bearing[1],
   pitch |-> IF raw.pitch = None THEN 0 ELSE raw.pitch[1],
   geojson |-> raw.geojson]

\* the decoded views
Views == {DecodeView(raw) : raw \in RawViews}

\* What the engine and the codec do with one view, when asked.
Fates == {"ok", "RenderError", "EncodeError"}
\* std::fs::write: done, failed leaving nothing, failed leaving a truncated file
WriteOutcomes == {"ok", "err", "err_partial"}
\* ImageRenderer::load_style_from_path
LoadOutcomes == {"ok", "err"}

SeqsUpTo(S, n) == UNION {[1..k -> S] : k \in 0..n}

\* The environment's choices that a command can consult: the file write only
\* for an inline style, the path loader only for a style that is not a URL,
\* and in a batch nothing after the first failure.
WriteChoices(style) ==
  IF Len(style) >= 1 /\ style[1] = "{" THEN WriteOutcomes ELSE {"ok"}
LoadChoices(style, wr) ==
  IF wr # "ok" \/ (Len(style) >= 1 /\ style[1] \in {"http://", "https://", "file://"})
  THEN {"ok"} ELSE LoadOutcomes
BatchFates(n) ==
  {f \in [1..n -> Fates] : Cardinality({i \in 1..n : f[i] # "ok"}) <= 1}

\* -------------------------------------------------------------- state
VARIABLES
  renderer,     \* Renderer.renderer : Option<ImageRenderer>
  width,        \* Renderer.width
  height,       \* Renderer.height
  temp_files,   \* Renderer.temp_files
  fs,           \* files of the temp directory: set of [path, content]
  running,      \* the for loop of main is still iterating
  lineNo,       \* number of lines taken from stdin
  nonblank,     \* line numbers whose text was not blank
  out,          \* stdout: for each response line, the input line that caused it
  resp,         \* the responses written while handling the last line
  flushed,      \* stdout.flush() ran after the last write
  calls,        \* render_static calls made while handling the last line
  written,      \* paths handed to std::fs::write so far
  delFailed,    \* paths whose remove_file failed in cleanup_temp_files
  cleanups,     \* number of runs of cleanup_temp_files
  lastInitOk,   \* line of the last init command answered ok, 0 if none
  lastInit,     \* the last init command that reached Renderer::init
  cmd,          \* the last line as decoded (with the environment's choices)
  pre           \* the Renderer record and the files before the last line

vars == <<renderer, width, height, temp_files, fs, running, lineNo, nonblank,
          out, resp, flushed, calls, written, delFailed, cleanups, lastInitOk,
          lastInit, cmd,
          pre>>

\* The Renderer struct as one record.
Self == [renderer |-> renderer, width |-> width, height |-> height,
         temp_files |-> temp_files]

RendererNew == [renderer |-> None, width |-> InitialWidth,
                height |-> InitialHeight, temp_files |-> <<>>]

\* Response record
Response(status, png, error) == [status |-> status, png |-> png, error |-> error]

\* ------------------------------------------------------ style resolver
StartsWith(style, prefix) == Len(style) >= 1 /\ style[1] = prefix

\* style.parse::<Url>(): http and https need a host
UrlParses(style) ==
  ~(style[1] \in {"http://", "https://"} /\ Len(style) = 1)

TempPath(n) == <<"mlnative_style_", Pid, "_", n, ".json">>

\* std::fs::write(path, content)
FsWrite(files, path, content, wr) ==
  LET others == {f \in files : f.path # path} IN
  CASE wr = "ok" -> others \cup {[path |-> path, content |-> content]}
    [] wr = "err_partial" -> others \cup {[path |-> path, content |-> <<>>]}
    [] OTHER -> files

IsInline(style) == StartsWith(style, "{")
IsUrl(style) ==
  \/ StartsWith(style, "http://")
  \/ StartsWith(style, "https://")
  \/ StartsWith(style, "file://")

\* Variant of load_style that, for an inline style, removes the files of
\* the styles it supersedes and forgets their paths.
LoadStyle_EagerCleanup(eng, style, tf, files, wr, ld) ==
  IF IsUrl(style) THEN
    IF ~UrlParses(style)
    THEN [res |-> Err("Invalid style URL"), eng |-> eng, temp_files |-> tf,
          fs |-> files, wrote |-> <<>>]
    ELSE [res |-> Ok, eng |-> [eng EXCEPT !.style = <<"url", style>>],
          temp_files |-> tf, fs |-> files, wrote |-> <<>>]
  ELSE IF IsInline(style) THEN
    LET temp_file == TempPath(Len(tf)) IN
    IF wr # "ok" \/ ld # "ok"
    THEN [res |-> Err("io::Error"), eng |-> eng, temp_files |-> tf,
          fs |-> FsWrite(files, temp_file, style, wr), wrote |-> <<temp_file>>]
    ELSE [res |-> Ok, eng |-> [eng EXCEPT !.style = <<"path", temp_file>>],
          temp_files |-> <<temp_file>>,
          fs |-> FsWrite({f \in files : f.path \notin Range(tf)}, temp_file, style, wr),
          wrote |-> <<temp_file>>]
  ELSE
    IF ld # "ok"
    THEN [res |-> Err("io::Error"), eng |-> eng, temp_files |-> tf,
          fs |-> files, wrote |-> <<>>]
    ELSE [res |-> Ok, eng |-> [eng EXCEPT !.style = <<"path", style>>],
          temp_files |-> tf, fs |-> files, wrote |-> <<>>]

\* Renderer::load_style(renderer, style, temp_files); eng is the engine the
\* style is loaded into, files the filesystem, wr and ld the outcomes of the
\* file write and of the engine's path loader.
LoadStyle(eng, style, tf, files, wr, ld) ==
  IF IsUrl(style) THEN
    IF ~UrlParses(style)
    THEN [res |-> Err("Invalid style URL"), eng |-> eng, temp_files |-> tf,
          fs |-> files, wrote |-> <<>>]
    ELSE [res |-> Ok, eng |-> [eng EXCEPT !.style = <<"url", style>>],
          temp_files |-> tf, fs |-> files, wrote |-> <<>>]
  ELSE IF IsInline(style) THEN
    LET temp_file == TempPath(Len(tf)) IN
    IF wr # "ok"
    THEN [res |-> Err("io::Error"), eng |-> eng, temp_files |-> tf,
          fs |-> FsWrite(files, temp_file, style, wr), wrote |-> <<temp_file>>]
    ELSE IF ld # "ok"
    THEN [res |-> Err("io::Error"), eng |-> eng, temp_files |-> tf,
          fs |-> FsWrite(files, temp_file, style, wr), wrote |-> <<temp_file>>]
    ELSE [res |-> Ok, eng |-> [eng EXCEPT !.style = <<"path", temp_file>>],
          temp_files |-> Append(tf, temp_file),
          fs |-> FsWrite(files, temp_file, style, wr), wrote |-> <<temp_file>>]
  ELSE
    IF ld # "ok"
    THEN [res |-> Err("io::Error"), eng |-> eng, temp_files |-> tf,
          fs |-> files, wrote |-> <<>>]
    ELSE [res |-> Ok, eng |-> [eng EXCEPT !.style = <<"path", style>>],
          temp_files |-> tf, fs |-> files, wrote |-> <<>>]

\* ------------------------------------------------------ Renderer methods
\* Variant of Renderer::init that stores the freshly built engine in
\* self.renderer before the style is loaded.
RendererInit_EarlyInstall(self, w, h, style, pixel_ratio, id, files, wr, ld) ==
  LET s1 == [self EXCEPT !.width = w, !.height = h] IN
  IF w = 0
  THEN [self |-> s1, fs |-> files, res |-> Err("Width must be non-zero"), wrote |-> <<>>]
  ELSE IF h = 0
  THEN [self |-> s1, fs |-> files, res |-> Err("Height must be non-zero"), wrote |-> <<>>]
  ELSE
    LET built == [id |-> id, width |-> w, height |-> h,
                  pixel_ratio |-> pixel_ratio, style |-> None]
        ls == LoadStyle(built, style, s1.temp_files, files, wr, ld)
    IN [self |-> [s1 EXCEPT !.renderer = Some(ls.eng),
                            !.temp_files = ls.temp_files],
        fs |-> ls.fs, res |-> ls.res, wrote |-> ls.wrote]

\* Variant of Renderer::init that drops the held engine before building the
\* new one.
RendererInit_DropFirst(self, w, h, style, pixel_ratio, id, files, wr, ld) ==
  LET s1 == [self EXCEPT !.width = w, !.height = h, !.renderer = None] IN
  IF w = 0
  THEN [self |-> s1, fs |-> files, res |-> Err("Width must be non-zero"), wrote |-> <<>>]
  ELSE IF h = 0
  THEN [self |-> s1, fs |-> files, res |-> Err("Height must be non-zero"), wrote |-> <<>>]
  ELSE
    LET built == [id |-> id, width |-> w, height |-> h,
                  pixel_ratio |-> pixel_ratio, style |-> None]
        ls == LoadStyle(built, style, s1.temp_files, files, wr, ld)
    IN IF ls.res.ok
       THEN [self |-> [s1 EXCEPT !.renderer = Some(ls.eng),
                                 !.temp_files = ls.temp_files],
             fs |-> ls.fs, res |-> Ok, wrote |-> ls.wrote]
       ELSE [self |-> [s1 EXCEPT !.temp_files = ls.temp_files],
             fs |-> ls.fs, res |-> ls.res, wrote |-> ls.wrote]

\* Variant of Renderer::init that builds the engine and loads the style but
\* never stores the engine in self.renderer.
RendererInit_NoInstall(self, w, h, style, pixel_ratio, id, files, wr, ld) ==
  LET s1 == [self EXCEPT !.width = w, !.height = h] IN
  IF w = 0
  THEN [self |-> s1, fs |-> files, res |-> Err("Width must be non-zero"), wrote |-> <<>>]
  ELSE IF h = 0
  THEN [self |-> s1, fs |-> files, res |-> Err("Height must be non-zero"), wrote |-> <<>>]
  ELSE
    LET built == [id |-> id, width |-> w, height |-> h,
                  pixel_ratio |-> pixel_ratio, style |-> None]
        ls == LoadStyle(built, style, s1.temp_files, files, wr, ld)
    IN [self |-> [s1 EXCEPT !.temp_files = ls.temp_files],
        fs |-> ls.fs, res |-> ls.res, wrote |-> ls.wrote]

\* Renderer::init; id names the engine instance that the builder creates.
RendererInit(self, w, h, style, pixel_ratio, id, files, wr, ld) ==
  LET s1 == [self EXCEPT !.width = w, !.height = h] IN
  IF w = 0
  THEN [self |-> s1, fs |-> files, res |-> Err("Width must be non-zero"), wrote |-> <<>>]
  ELSE IF h = 0
  THEN [self |-> s1, fs |-> files, res |-> Err("Height must be non-zero"), wrote |-> <<>>]
  ELSE
    LET built == [id |-> id, width |-> w, height |-> h,
                  pixel_ratio |-> pixel_ratio, style |-> None]
        ls == LoadStyle(built, style, s1.temp_files, files, wr, ld)
    IN IF ls.res.ok
       THEN [self |-> [s1 EXCEPT !.renderer = Some(ls.eng),
                                 !.temp_files = ls.temp_files],
             fs |-> ls.fs, res |-> Ok, wrote |-> ls.wrote]
       ELSE [self |-> [s1 EXCEPT !.temp_files = ls.temp_files],
             fs |-> ls.fs, res |-> ls.res, wrote |-> ls.wrote]

\* Variant of reload_style that loads the style into a rebuilt engine of
\* the configured size and the default pixel ratio.
RendererReloadStyle_Rebuild(self, style, files, wr, ld) ==
  IF self.renderer = None
  THEN [self |-> self, fs |-> files, res |-> Err("Renderer not initialized"),
        wrote |-> <<>>]
  ELSE
    LET rebuilt == [self.renderer[1] EXCEPT !.width = self.width,
                                            !.height = self.height,
                                            !.pixel_ratio = default_pixel_ratio]
        ls == LoadStyle(rebuilt, style, self.temp_files, files, wr, ld)
    IN [self |-> [self EXCEPT !.renderer = Some(ls.eng),
                              !.temp_files = ls.temp_files],
        fs |-> ls.fs, res |-> ls.res, wrote |-> ls.wrote]

\* Renderer::reload_style
RendererReloadStyle(self, style, files, wr, ld) ==
  IF self.renderer = None
  THEN [self |-> self, fs |-> files, res |-> Err("Renderer not initialized"),
        wrote |-> <<>>]
  ELSE
    LET ls == LoadStyle(self.renderer[1], style, self.temp_files, files, wr, ld)
    IN [self |-> [self EXCEPT !.renderer = Some(ls.eng),
                              !.temp_files = ls.temp_files],
        fs |-> ls.fs, res |-> ls.res, wrote |-> ls.wrote]

\* ImageRenderer::render_static(lat, lon, zoom, bearing, pitch) as a call record
EngineCall(eng, lat, lon, zoom, bearing, pitch) ==
  [engine |-> eng.id, lat |-> lat, lon |-> lon, zoom |-> zoom,
   bearing |-> bearing, pitch |-> pitch]

\* Variant of Renderer::render that passes center[0] as latitude and
\* center[1] as longitude.
RendererRender_NoSwap(self, center, zoom, bearing, pitch, fate) ==
  IF self.renderer = None
  THEN [ok |-> FALSE, err |-> "StyleNotSpecified", image |-> None, calls |-> <<>>]
  ELSE
    LET call == EngineCall(self.renderer[1], center[1], center[2], zoom, bearing, pitch)
    IN IF fate = "RenderError"
       THEN [ok |-> FALSE, err |-> "EngineError", image |-> None, calls |-> <<call>>]
       ELSE [ok |-> TRUE, err |-> "", image |-> Some(call), calls |-> <<call>>]

\* Renderer::render; fate is what the engine does if it is invoked.
RendererRender(self, center, zoom, bearing, pitch, fate) ==
  IF self.renderer = None
  THEN [ok |-> FALSE, err |-> "StyleNotSpecified", image |-> None, calls |-> <<>>]
  ELSE
    LET call == EngineCall(self.renderer[1], center[2], center[1], zoom, bearing, pitch)
    IN IF fate = "RenderError"
       THEN [ok |-> FALSE, err |-> "EngineError", image |-> None, calls |-> <<call>>]
       ELSE [ok |-> TRUE, err |-> "", image |-> Some(call), calls |-> <<call>>]

\* Renderer::update_geojson_sources
UpdateGeojsonSources(self, geojson) == Ok

\* Variant of cleanup_temp_files without the removal loop.
CleanupTempFiles_NoRemove(self, files, failed) ==
  [self |-> [self EXCEPT !.temp_files = <<>>], fs |-> files]

\* Renderer::cleanup_temp_files; failed are the paths whose removal fails.
CleanupTempFiles(self, files, failed) ==
  [self |-> [self EXCEPT !.temp_files = <<>>],
   fs |-> {f \in files : f.path \notin (Range(self.temp_files) \ failed)}]

\* ------------------------------------------------------ response encoder
B64Alphabet == <<"A", "B", "C", "D", "E", "F", "G", "H">>

\* the raster of an image, as bytes
Raster(image) == <<image.lat, image.lon, image.zoom, image.bearing, image.pitch>>

\* encode_png: PNG bytes, then base64 text
EncodePng(image, fate) ==
  IF fate = "EncodeError"
  THEN [ok |-> FALSE, err |-> <<"Failed to encode PNG: ", "ImageError">>, text |-> <<>>]
  ELSE [ok |-> TRUE, err |-> <<>>,
        text |-> [i \in 1..Len(Raster(image)) |-> B64Alphabet[Raster(image)[i] + 1]]]

\* pngs.join(",")
RECURSIVE Join(_)
Join(pngs) ==
  IF pngs = <<>> THEN <<>>
  ELSE IF Len(pngs) = 1 THEN pngs[1]
  ELSE pngs[1] \o <<",">> \o Join(Tail(pngs))

\* ------------------------------------------------------------ dispatcher
\* Variant of the batch loop without the break after a failed view.
RECURSIVE BatchLoop_NoBreak(_, _, _, _, _, _)
BatchLoop_NoBreak(self, views, fates, i, pngs, cs) ==
  IF i > Len(views)
  THEN [pngs |-> pngs, error_response |-> None, calls |-> cs]
  ELSE
    LET view == views[i]
        r == RendererRender(self, view.center, view.zoom, view.bearing,
                            view.pitch, fates[i])
        e == IF r.ok THEN EncodePng(r.image[1], fates[i])
             ELSE [ok |-> FALSE, err |-> <<"Batch render failed: ", r.err>>, text |-> <<>>]
        rest == BatchLoop_NoBreak(self, views, fates, i + 1,
                                  IF e.ok THEN Append(pngs, e.text) ELSE pngs,
                                  cs \o r.calls)
    IN IF e.ok THEN rest
       ELSE [rest EXCEPT !.error_response = Some(Response("error", None, Some(e.err)))]

\* Variant of the batch loop whose error response carries the images
\* encoded so far.
RECURSIVE BatchLoop_Partial(_, _, _, _, _, _)
BatchLoop_Partial(self, views, fates, i, pngs, cs) ==
  IF i > Len(views)
  THEN [pngs |-> pngs, error_response |-> None, calls |-> cs]
  ELSE
    LET view == views[i]
        r == RendererRender(self, view.center, view.zoom, view.bearing,
                            view.pitch, fates[i])
    IN
    IF ~r.ok
    THEN [pngs |-> pngs, calls |-> cs \o r.calls,
          error_response |->
            Some(Response("error", Some(Join(pngs)),
                          Some(<<"Batch render failed: ", r.err>>)))]
    ELSE
      LET e == EncodePng(r.image[1], fates[i]) IN
      IF e.ok
      THEN BatchLoop_Partial(self, views, fates, i + 1, Append(pngs, e.text), cs \o r.calls)
      ELSE [pngs |-> pngs, calls |-> cs \o r.calls,
            error_response |-> Some(Response("error", Some(Join(pngs)), Some(e.err)))]

\* Variant of the batch loop that puts each new image in front of the list.
RECURSIVE BatchLoop_Prepend(_, _, _, _, _, _)
BatchLoop_Prepend(self, views, fates, i, pngs, cs) ==
  IF i > Len(views)
  THEN [pngs |-> pngs, error_response |-> None, calls |-> cs]
  ELSE
    LET view == views[i]
        r == RendererRender(self, view.center, view.zoom, view.bearing,
                            view.pitch, fates[i])
    IN
    IF ~r.ok
    THEN [pngs |-> pngs, calls |-> cs \o r.calls,
          error_response |->
            Some(Response("error", None, Some(<<"Batch render failed: ", r.err>>)))]
    ELSE
      LET e == EncodePng(r.image[1], fates[i]) IN
      IF e.ok
      THEN BatchLoop_Prepend(self, views, fates, i + 1, <<e.text>> \o pngs, cs \o r.calls)
      ELSE [pngs |-> pngs, calls |-> cs \o r.calls,
            error_response |-> Some(Response("error", None, Some(e.err)))]

\* The loop body of the RenderBatch arm from view i on.
RECURSIVE BatchLoop(_, _, _, _, _, _)
BatchLoop(self, views, fates, i, pngs, cs) ==
  IF i > Len(views)
  THEN [pngs |-> pngs, error_response |-> None, calls |-> cs]
  ELSE
    LET view == views[i]
        upd == IF view.geojson # None
               THEN UpdateGeojsonSources(self, view.geojson[1])
               ELSE Ok
    IN
    IF ~upd.ok
    THEN [pngs |-> pngs, calls |-> cs,
          error_response |->
            Some(Response("error", None, Some(<<"GeoJSON update failed: ", upd.err>>)))]
    ELSE
      LET r == RendererRender(self, view.center, view.zoom, view.bearing,
                              view.pitch, fates[i])
      IN
      IF ~r.ok
      THEN [pngs |-> pngs, calls |-> cs \o r.calls,
            error_response |->
              Some(Response("error", None, Some(<<"Batch render failed: ", r.err>>)))]
      ELSE
        LET e == EncodePng(r.image[1], fates[i]) IN
        IF e.ok
        THEN BatchLoop(self, views, fates, i + 1, Append(pngs, e.text), cs \o r.calls)
        ELSE [pngs |-> pngs, calls |-> cs \o r.calls,
              error_response |-> Some(Response("error", None, Some(e.err)))]

\* send_response for the line being handled, then either the stdout.flush()
\* that ends the loop body (flush = TRUE) or a continue (flush = FALSE).
Send(r, flush) ==
  /\ out' = Append(out, lineNo + 1)
  /\ resp' = <<r>>
  /\ flushed' = flush

\* One non-blank line is taken from stdin.
TakeLine ==
  /\ running
  /\ lineNo < MaxLines
  /\ lineNo' = lineNo + 1
  /\ nonblank' = Append(nonblank, lineNo + 1)
  /\ pre' = [self |-> Self, fs |-> fs]

Install(self) ==
  /\ renderer' = self.renderer
  /\ width' = self.width
  /\ height' = self.height
  /\ temp_files' = self.temp_files

\* for loop: a line that is empty after trim -> continue
BlankLine ==
  /\ running
  /\ lineNo < MaxLines
  /\ lineNo' = lineNo + 1
  /\ pre' = [self |-> Self, fs |-> fs]
  /\ cmd' = [cmd |-> "blank"]
  /\ resp' = <<>>
  /\ calls' = <<>>
  /\ UNCHANGED <<renderer, width, height, temp_files, fs, running, nonblank,
                 out, flushed, written, delFailed, cleanups, lastInitOk, lastInit>>

\* Variant of the decode-failure path that writes no response.
DecodeError_Silent ==
  /\ TakeLine
  /\ cmd' = [cmd |-> "invalid"]
  /\ resp' = <<>>
  /\ calls' = <<>>
  /\ UNCHANGED <<renderer, width, height, temp_files, fs, running, written,
                 delFailed, cleanups, lastInitOk, lastInit, out, flushed>>

\* Variant of the decode-failure path that leaves the loop (break).
DecodeError_Break ==
  /\ TakeLine
  /\ cmd' = [cmd |-> "invalid"]
  /\ Send(Response("error", None, Some(<<"Invalid command: ", "serde_json::Error">>)), FALSE)
  /\ calls' = <<>>
  /\ running' = FALSE
  /\ UNCHANGED <<renderer, width, height, temp_files, fs, written,
                 delFailed, cleanups, lastInitOk, lastInit>>

\* serde_json::from_str fails -> error response, continue
DecodeError ==
  /\ TakeLine
  /\ cmd' = [cmd |-> "invalid"]
  /\ Send(Response("error", None, Some(<<"Invalid command: ", "serde_json::Error">>)), FALSE)
  /\ calls' = <<>>
  /\ UNCHANGED <<renderer, width, height, temp_files, fs, running, written,
                 delFailed, cleanups, lastInitOk, lastInit>>

\* Variant of the Init arm that compares the protocol version after
\* renderer.init has run.
Init_VersionAfter(w, h, style, pixel_ratio, protocol_version, wr, ld) ==
  /\ TakeLine
  /\ cmd' = [cmd |-> "init", width |-> w, height |-> h, style |-> style,
             pixel_ratio |-> pixel_ratio, protocol_version |-> protocol_version]
  /\ calls' = <<>>
  /\ UNCHANGED <<running, delFailed, cleanups>>
  /\ LET r == RendererInit(Self, w, h, style, pixel_ratio, lineNo + 1, fs, wr, ld) IN
     /\ Install(r.self)
     /\ fs' = r.fs
     /\ written' = written \o r.wrote
     /\ IF protocol_version # None /\ protocol_version[1] # PROTOCOL_VERSION
        THEN /\ Send(Response("error", None,
                       Some(<<"Protocol version mismatch: client=", protocol_version[1],
                              ", daemon=", PROTOCOL_VERSION>>)), FALSE)
             /\ UNCHANGED <<lastInitOk, lastInit>>
        ELSE /\ lastInitOk' = IF r.res.ok THEN lineNo + 1 ELSE lastInitOk
             /\ lastInit' = [line |-> lineNo + 1, valid |-> (w > 0 /\ h > 0),
                             loaded |-> r.res.ok, fresh |-> (lastInitOk = 0)]
             /\ IF r.res.ok
                THEN Send(Response("ok", None, None), TRUE)
                ELSE Send(Response("error", None, Some(<<"Init failed: ", r.res.err>>)), TRUE)

\* Command::Init arm
Init_(w, h, style, pixel_ratio, protocol_version, wr, ld) ==
  /\ TakeLine
  /\ cmd' = [cmd |-> "init", width |-> w, height |-> h, style |-> style,
             pixel_ratio |-> pixel_ratio, protocol_version |-> protocol_version]
  /\ calls' = <<>>
  /\ UNCHANGED <<running, delFailed, cleanups>>
  /\ IF protocol_version # None /\ protocol_version[1] # PROTOCOL_VERSION
     THEN /\ Send(Response("error", None,
                    Some(<<"Protocol version mismatch: client=", protocol_version[1],
                           ", daemon=", PROTOCOL_VERSION>>)), FALSE)
          /\ UNCHANGED <<renderer, width, height, temp_files, fs, written, lastInitOk, lastInit>>
     ELSE LET r == RendererInit(Self, w, h, style, pixel_ratio, lineNo + 1, fs, wr, ld) IN
          /\ Install(r.self)
          /\ fs' = r.fs
          /\ written' = written \o r.wrote
          /\ lastInitOk' = IF r.res.ok THEN lineNo + 1 ELSE lastInitOk
          /\ lastInit' = [line |-> lineNo + 1, valid |-> (w > 0 /\ h > 0),
                          loaded |-> r.res.ok, fresh |-> (lastInitOk = 0)]
          /\ IF r.res.ok
             THEN Send(Response("ok", None, None), TRUE)
             ELSE Send(Response("error", None, Some(<<"Init failed: ", r.res.err>>)), TRUE)

\* Command::Render arm
Render(raw, fate) ==
  /\ TakeLine
  /\ cmd' = [cmd |-> "render", center |-> DecodeView(raw).center,
             zoom |-> DecodeView(raw).zoom, bearing |-> DecodeView(raw).bearing,
             pitch |-> DecodeView(raw).pitch, fate |-> fate, raw |-> raw]
  /\ UNCHANGED <<renderer, width, height, temp_files, fs, running, written,
                 delFailed, cleanups, lastInitOk, lastInit>>
  /\ LET view == DecodeView(raw)
         r == RendererRender(Self, view.center, view.zoom, view.bearing, view.pitch, fate) IN
     /\ calls' = r.calls
     /\ IF r.ok
        THEN LET e == EncodePng(r.image[1], fate) IN
             IF e.ok
             THEN Send(Response("ok", Some(e.text), None), TRUE)
             ELSE Send(Response("error", None, Some(e.err)), TRUE)
        ELSE Send(Response("error", None, Some(<<"Render failed: ", r.err>>)), TRUE)

\* Command::ReloadStyle arm
ReloadStyle(style, wr, ld) ==
  /\ TakeLine
  /\ cmd' = [cmd |-> "reload_style", style |-> style]
  /\ calls' = <<>>
  /\ UNCHANGED <<running, delFailed, cleanups, lastInitOk, lastInit>>
  /\ LET r == RendererReloadStyle(Self, style, fs, wr, ld) IN
     /\ Install(r.self)
     /\ fs' = r.fs
     /\ written' = written \o r.wrote
     /\ IF r.res.ok
        THEN Send(Response("ok", None, None), TRUE)
        ELSE Send(Response("error", None, Some(<<"Reload style failed: ", r.res.err>>)), TRUE)

\* Command::RenderBatch arm
RenderBatch(raws, fates) ==
  /\ TakeLine
  /\ cmd' = [cmd |-> "render_batch", views |-> [i \in 1..Len(raws) |-> DecodeView(raws[i])],
             fates |-> fates, raw |-> raws]
  /\ UNCHANGED <<renderer, width, height, temp_files, fs, running, written,
                 delFailed, cleanups, lastInitOk, lastInit>>
  /\ LET views == [i \in 1..Len(raws) |-> DecodeView(raws[i])]
         b == BatchLoop(Self, views, fates, 1, <<>>, <<>>) IN
     /\ calls' = b.calls
     /\ IF b.error_response # None
        THEN Send(b.error_response[1], TRUE)
        ELSE Send(Response("ok", Some(Join(b.pngs)), None), TRUE)

\* Variant of the Quit arm without the break.
Quit_NoBreak(failed) ==
  /\ TakeLine
  /\ cmd' = [cmd |-> "quit"]
  /\ LET c == CleanupTempFiles(Self, fs, failed) IN
     /\ Install(c.self)
     /\ fs' = c.fs
  /\ delFailed' = failed
  /\ cleanups' = cleanups + 1
  /\ resp' = <<>>
  /\ calls' = <<>>
  /\ flushed' = TRUE
  /\ UNCHANGED <<running, out, written, lastInitOk, lastInit>>

\* Command::Quit arm: cleanup, break (no response, no flush)
Quit(failed) ==
  /\ TakeLine
  /\ cmd' = [cmd |-> "quit"]
  /\ LET c == CleanupTempFiles(Self, fs, failed) IN
     /\ Install(c.self)
     /\ fs' = c.fs
  /\ delFailed' = failed
  /\ cleanups' = cleanups + 1
  /\ running' = FALSE
  /\ resp' = <<>>
  /\ calls' = <<>>
  /\ UNCHANGED <<out, flushed, written, lastInitOk, lastInit>>

\* stdin.lock().lines() is exhausted: the for loop ends
EndOfInput ==
  /\ running
  /\ running' = FALSE
  /\ pre' = [self |-> Self, fs |-> fs]
  /\ cmd' = [cmd |-> "eof"]
  /\ resp' = <<>>
  /\ calls' = <<>>
  /\ UNCHANGED <<renderer, width, height, temp_files, fs, lineNo, nonblank, out,
                 flushed, written, delFailed, cleanups, lastInitOk, lastInit>>

\* a line read fails: Err(_) => break
ReadError ==
  /\ running
  /\ running' = FALSE
  /\ pre' = [self |-> Self, fs |-> fs]
  /\ cmd' = [cmd |-> "read_error"]
  /\ resp' = <<>>
  /\ calls' = <<>>
  /\ UNCHANGED <<renderer, width, height, temp_files, fs, lineNo, nonblank, out,
                 flushed, written, delFailed, cleanups, lastInitOk, lastInit>>

\* main before the loop: Renderer::new(), nothing read or written
Init ==
  /\ renderer = RendererNew.renderer
  /\ width = RendererNew.width
  /\ height = RendererNew.height
  /\ temp_files = RendererNew.temp_files
  /\ fs = {}
  /\ running = TRUE
  /\ lineNo = 0
  /\ nonblank = <<>>
  /\ out = <<>>
  /\ resp = <<>>
  /\ flushed = TRUE
  /\ calls = <<>>
  /\ written = <<>>
  /\ delFailed = {}
  /\ cleanups = 0
  /\ lastInitOk = 0
  /\ lastInit = [line |-> 0, valid |-> FALSE, loaded |-> FALSE, fresh |-> FALSE]
  /\ cmd = [cmd |-> "start"]
  /\ pre = [self |-> RendererNew, fs |-> {}]

Next ==
  \/ BlankLine
  \/ DecodeError
  \/ \E c \in InitCommands :
       \E wr \in WriteChoices(c.style) : \E ld \in LoadChoices(c.style, wr) :
         Init_(c.width, c.height, c.style, c.pixel_ratio, c.protocol_version, wr, ld)
  \/ \E raw \in RawViews, fate \in Fates : Render(raw, fate)
  \/ \E style \in Styles :
       \E wr \in WriteChoices(style) : \E ld \in LoadChoices(style, wr) :
         ReloadStyle(style, wr, ld)
  \/ \E raws \in SeqsUpTo(RawViews, MaxViews) :
       \E fates \in BatchFates(Len(raws)) : RenderBatch(raws, fates)
  \/ \E failed \in SUBSET Range(temp_files) : Quit(failed)
  \/ EndOfInput
  \/ ReadError

Spec == Init /\ [][Next]_vars

\* The loop makes progress: every engine, codec and filesystem call returns
\* and the read of the next line returns a line, the end of input or an error.
FairSpec == Spec /\ WF_vars(Next)

\* =================================================================== claims
\* What the last line decoded to, and how it was answered.
Answered(kind) == cmd.cmd = kind /\ Len(resp) = 1
AnsweredError(kind) == Answered(kind) /\ resp[1].status = "error"
NotInitializedResponse ==
  Response("error", None, Some(<<"Render failed: ", "StyleNotSpecified">>))
VersionMismatch ==
  cmd.cmd = "init" /\ cmd.protocol_version # None
  /\ cmd.protocol_version[1] # PROTOCOL_VERSION
IsVersionError(r) ==
  r.error # None /\ r.error[1][1] = "Protocol version mismatch: client="
FileExists(p) == \E f \in fs : f.path = p

\* C1: while no init has been answered ok, a render command (any view) is
\* answered by exactly the not-initialized error (the error of
\* Renderer::render when the engine slot is empty), with no png, and
\* render_static is not called.
C1_RenderBeforeInit ==
  (cmd.cmd = "render" /\ lastInitOk = 0) =>
    /\ resp = <<NotInitializedResponse>>
    /\ resp[1].png = None
    /\ calls = <<>>

\* a render arrives after an init that failed and before any init succeeded
C1_Witness ==
  /\ cmd.cmd = "render"
  /\ lastInitOk = 0
  /\ lineNo >= 2
  /\ pre.self.width # InitialWidth

\* C2: an init answered with an error leaves the held engine in place; the
\* engine slot changes only to an engine built by this init whose style is
\* loaded and whose init is answered ok; and every render is served by the
\* engine of the last init that was answered ok.
C2_FailedInitKeepsEngine ==
  /\ AnsweredError("init") => renderer = pre.self.renderer
  /\ (cmd.cmd = "init" /\ renderer # pre.self.renderer) =>
       /\ resp[1].status = "ok"
       /\ renderer # None
       /\ renderer[1].id = lineNo
       /\ renderer[1].style # None
  /\ (cmd.cmd = "render" /\ lastInitOk > 0) =>
       /\ Len(calls) = 1
       /\ calls[1].engine = lastInitOk

\* an init fails in the engine's style load while an earlier engine is held
C2_Witness ==
  /\ AnsweredError("init")
  /\ cmd.width > 0 /\ cmd.height > 0
  /\ ~VersionMismatch
  /\ pre.self.renderer # None
  /\ renderer = pre.self.renderer

\* C3: an init or reload_style answered with an error leaves the Renderer
\* record (engine, width, height, temp_files) as it was before the command.
C3_ErrorLeavesRendererState ==
  (AnsweredError("init") \/ AnsweredError("reload_style")) => Self = pre.self

\* C4: no two inline resolutions of one run write to the same path.
C4_DistinctTempPaths ==
  \A i, j \in 1..Len(written) : i # j => written[i] # written[j]

\* C5 as stated: the response lines are exactly the non-blank input lines,
\* in order.
C5_OneResponsePerLine == out = nonblank

\* C5 amended: the response lines are, in order, exactly the non-blank input
\* lines other than a quit line (quit, like a blank line, is not answered).
C5_OneResponsePerCommand ==
  /\ out = IF cmd.cmd = "quit"
           THEN SubSeq(nonblank, 1, Len(nonblank) - 1)
           ELSE nonblank
  /\ cmd.cmd \in {"invalid", "init", "render", "reload_style", "render_batch"} =>
       Len(resp) = 1 /\ out[Len(out)] = lineNo
  /\ cmd.cmd \in {"blank", "quit"} => resp = <<>>

\* a run with a blank line, answered commands and a final quit
C5_Witness ==
  /\ cmd.cmd = "quit"
  /\ Len(out) >= 1
  /\ Len(nonblank) = Len(out) + 1
  /\ lineNo > Len(nonblank)

\* the first view of the last batch that fails, 0 if none does
FirstFailing ==
  IF cmd.views = <<>> THEN 0
  ELSE IF pre.self.renderer = None THEN 1
  ELSE IF \E k \in 1..Len(cmd.views) : cmd.fates[k] # "ok"
       THEN CHOOSE k \in 1..Len(cmd.views) :
              /\ cmd.fates[k] # "ok"
              /\ \A j \in 1..(k - 1) : cmd.fates[j] = "ok"
       ELSE 0

\* C6: a render_batch in which view k fails is answered by exactly one
\* response, an error without png, and no view after k reaches the engine.
C6_BatchFailure ==
  (cmd.cmd = "render_batch" /\ FirstFailing > 0) =>
    /\ Len(resp) = 1
    /\ resp[1].status = "error"
    /\ resp[1].png = None
    /\ resp[1].error # None
    /\ Len(calls) <= FirstFailing
    /\ \A i \in 1..Len(calls) :
         /\ calls[i].lon = cmd.views[i].center[1]
         /\ calls[i].lat = cmd.views[i].center[2]
         /\ calls[i].zoom = cmd.views[i].zoom

\* the first of two views fails in the engine, the second is left unrendered
C6_Witness ==
  /\ cmd.cmd = "render_batch"
  /\ Len(cmd.views) = 2
  /\ pre.self.renderer # None
  /\ FirstFailing = 1
  /\ Len(calls) = 1

\* the encoded images that a payload holds: its comma-separated entries,
\* none for the empty payload
RECURSIVE SplitFrom(_, _, _)
SplitFrom(s, i, cur) ==
  IF i > Len(s) THEN <<cur>>
  ELSE IF s[i] = "," THEN <<cur>> \o SplitFrom(s, i + 1, <<>>)
  ELSE SplitFrom(s, i + 1, Append(cur, s[i]))
Images(payload) == IF payload = <<>> THEN <<>> ELSE SplitFrom(payload, 1, <<>>)

\* the base64 text of the raster of view v
EncodingOfView(v) ==
  <<B64Alphabet[v.center[2] + 1], B64Alphabet[v.center[1] + 1],
    B64Alphabet[v.zoom + 1], B64Alphabet[v.bearing + 1], B64Alphabet[v.pitch + 1]>>

\* C7: a render_batch of N views that all succeed is answered by exactly
\* one ok response whose payload holds exactly N images, the i-th being the
\* encoding of the render of the i-th view (N = 0 included: empty payload).
C7_BatchSuccess ==
  (cmd.cmd = "render_batch" /\ FirstFailing = 0) =>
    /\ Len(resp) = 1
    /\ resp[1].status = "ok"
    /\ resp[1].error = None
    /\ resp[1].png # None
    /\ Images(resp[1].png[1]) = [i \in 1..Len(cmd.views) |-> EncodingOfView(cmd.views[i])]
    /\ Len(calls) = Len(cmd.views)

\* two different views are rendered and encoded
C7_Witness ==
  /\ cmd.cmd = "render_batch"
  /\ FirstFailing = 0
  /\ Len(cmd.views) = 2
  /\ cmd.views[1] # cmd.views[2]

\* C8: after quit the registry is empty, every file that was tracked is gone
\* unless its removal failed, no error is reported and the loop has ended.
C8_QuitRemovesTempFiles ==
  cmd.cmd = "quit" =>
    /\ temp_files = <<>>
    /\ \A p \in Range(pre.self.temp_files) : p \notin delFailed => ~FileExists(p)
    /\ resp = <<>>
    /\ ~running

\* quit with a tracked file on disk, one removal failing and one not
C8_Witness ==
  /\ cmd.cmd = "quit"
  /\ Len(pre.self.temp_files) = 2
  /\ Cardinality(delFailed) = 1
  /\ \A p \in Range(pre.self.temp_files) : \E f \in pre.fs : f.path = p

\* C9: a line that fails to decode is answered by one error response, leaves
\* the Renderer record and the files unchanged, and the loop goes on reading.
C9_DecodeFailureContinues ==
  cmd.cmd = "invalid" =>
    /\ Len(resp) = 1
    /\ resp[1].status = "error"
    /\ resp[1].png = None
    /\ resp[1].error # None
    /\ Self = pre.self
    /\ fs = pre.fs
    /\ calls = <<>>
    /\ running

\* a bad line arrives while an engine and a temp file are held
C9_Witness ==
  /\ cmd.cmd = "invalid"
  /\ renderer # None
  /\ temp_files # <<>>

\* C10: an init whose protocol_version differs from PROTOCOL_VERSION is
\* answered with the version error and leaves the Renderer record and the
\* files unchanged; an init without protocol_version or with the matching one
\* is never answered with the version error.
C10_VersionMismatchIsNoOp ==
  cmd.cmd = "init" =>
    /\ Len(resp) = 1
    /\ VersionMismatch =>
         /\ resp[1].status = "error"
         /\ IsVersionError(resp[1])
         /\ Self = pre.self
         /\ fs = pre.fs
    /\ ~VersionMismatch => ~IsVersionError(resp[1])

\* a mismatching init that would otherwise have changed width and height
C10_Witness ==
  /\ VersionMismatch
  /\ pre.self.renderer # None
  /\ cmd.width # pre.self.width

\* an init carrying the matching version is carried out
C10_WitnessMatching ==
  /\ cmd.cmd = "init"
  /\ cmd.protocol_version = Some(PROTOCOL_VERSION)
  /\ resp[1].status = "ok"

\* C11 as stated: every response has exactly one of png and error: png and
\* no error when status is ok, error and no png when status is error.
C11_ExactlyOnePayload ==
  \A i \in 1..Len(resp) :
    /\ resp[i].status = "ok" => (resp[i].png # None /\ resp[i].error = None)
    /\ resp[i].status = "error" => (resp[i].error # None /\ resp[i].png = None)

\* C11 amended: every response has at most one of png and error: error is
\* present exactly when status is error, png only when status is ok; the ok
\* responses of render and render_batch carry png, those of init and
\* reload_style carry neither.
C11_AtMostOnePayload ==
  \A i \in 1..Len(resp) :
    /\ resp[i].status \in {"ok", "error"}
    /\ (resp[i].error # None) <=> (resp[i].status = "error")
    /\ resp[i].png # None => resp[i].status = "ok"
    /\ (resp[i].status = "ok" /\ cmd.cmd \in {"render", "render_batch"}) =>
         resp[i].png # None
    /\ cmd.cmd \in {"init", "reload_style"} => resp[i].png = None

\* a reload_style is answered ok, with neither png nor error
C11_Witness ==
  /\ Answered("reload_style")
  /\ resp[1] = Response("ok", None, None)

\* C12: whenever the loop is about to read a line, stdout.flush() has run
\* since the last response was written.
C12_FlushedBeforeRead == running => flushed

\* C13: reload_style with no engine held is answered with the
\* not-initialized error and resolves nothing (Renderer record and files
\* unchanged); with an engine held it keeps that engine instance, its size
\* and pixel ratio and the configured width and height, and when answered ok
\* the engine holds the new style.
C13_ReloadKeepsEngine ==
  cmd.cmd = "reload_style" =>
    /\ Len(resp) = 1
    /\ pre.self.renderer = None =>
         /\ resp[1] = Response("error", None,
                        Some(<<"Reload style failed: ", "Renderer not initialized">>))
         /\ Self = pre.self
         /\ fs = pre.fs
    /\ pre.self.renderer # None =>
         /\ renderer # None
         /\ renderer[1].id = pre.self.renderer[1].id
         /\ renderer[1].width = pre.self.renderer[1].width
         /\ renderer[1].height = pre.self.renderer[1].height
         /\ renderer[1].pixel_ratio = pre.self.renderer[1].pixel_ratio
         /\ width = pre.self.width
         /\ height = pre.self.height
         /\ resp[1].status = "ok" =>
              /\ renderer[1].style # None
              /\ \/ renderer[1].style[2] = cmd.style
                 \/ (cmd.style[1] = "{" /\ renderer[1].style[2] = temp_files[Len(temp_files)])
         /\ resp[1].status = "error" => renderer = pre.self.renderer

\* an inline style is reloaded into an engine built with pixel ratio 2
C13_Witness ==
  /\ Answered("reload_style")
  /\ resp[1].status = "ok"
  /\ cmd.style[1] = "{"
  /\ pre.self.renderer # None
  /\ pre.self.renderer[1].pixel_ratio # default_pixel_ratio
  /\ renderer # pre.self.renderer

\* the same with no engine held
C13_WitnessUninitialized ==
  /\ Answered("reload_style")
  /\ cmd.style[1] = "{"
  /\ pre.self.renderer = None

IsPrefix(s, t) == Len(s) <= Len(t) /\ SubSeq(t, 1, Len(s)) = s

\* C14: a line other than quit removes no path from the registry and
\* deletes no file, and cleanup_temp_files has run exactly once after a
\* quit and never otherwise.
C14_LeakUntilQuit ==
  /\ cmd.cmd # "quit" =>
       /\ IsPrefix(pre.self.temp_files, temp_files)
       /\ \A f \in pre.fs : FileExists(f.path)
       /\ \A f \in pre.fs : f.path \in Range(pre.self.temp_files) => f \in fs
       /\ cleanups = 0
  /\ cmd.cmd = "quit" => cleanups = 1

\* a second inline style supersedes the first; both files stay tracked
C14_Witness ==
  /\ cmd.cmd \in {"init", "reload_style"}
  /\ Len(pre.self.temp_files) = 1
  /\ Len(temp_files) = 2
  /\ \A p \in Range(temp_files) : FileExists(p)

\* the last line reached load_style with its style
Resolved ==
  \/ cmd.cmd = "init" /\ ~VersionMismatch /\ cmd.width > 0 /\ cmd.height > 0
  \/ cmd.cmd = "reload_style" /\ pre.self.renderer # None

\* C16: a resolution of a URL or local-path style creates no file and
\* leaves the registry unchanged; a resolution of an inline style whose file
\* was written leaves that one file, holding the style verbatim, and adds
\* exactly its path to the registry.
C16_TempFileByClassification ==
  Resolved =>
    /\ cmd.style[1] # "{" => (fs = pre.fs /\ temp_files = pre.self.temp_files)
    /\ (/\ cmd.style[1] = "{"
        /\ [path |-> TempPath(Len(pre.self.temp_files)), content |-> cmd.style] \in fs) =>
         /\ temp_files = Append(pre.self.temp_files, TempPath(Len(pre.self.temp_files)))
         /\ \A f \in fs : f \in pre.fs \/ f.path = TempPath(Len(pre.self.temp_files))

\* C19: while the loop runs, every file the daemon has written is tracked
\* in the registry.
C19_WrittenFilesTracked ==
  running => \A f \in fs : f.path \in Range(temp_files)

\* the render_static call that the view on the input line asks for
ExpectedCall(raw) ==
  [engine |-> pre.self.renderer[1].id,
   lat |-> raw.center[2], lon |-> raw.center[1], zoom |-> raw.zoom,
   bearing |-> IF raw.bearing = None THEN 0 ELSE raw.bearing[1],
   pitch |-> IF raw.pitch = None THEN 0 ELSE raw.pitch[1]]

\* C18: with an engine held, a render makes exactly one render_static call,
\* with latitude = center[1], longitude = center[0] (0-based) and zoom,
\* bearing and pitch as given, 0 for a bearing or pitch left out; every call
\* of a render_batch is that call for the view of the same position.
C18_EngineArguments ==
  /\ (cmd.cmd = "render" /\ pre.self.renderer # None) =>
       calls = <<ExpectedCall(cmd.raw)>>
  /\ (cmd.cmd = "render_batch" /\ pre.self.renderer # None) =>
       /\ \A i \in 1..Len(calls) : calls[i] = ExpectedCall(cmd.raw[i])
       /\ FirstFailing = 0 => Len(calls) = Len(cmd.raw)
       /\ FirstFailing > 0 => Len(calls) = FirstFailing

\* a render whose view leaves out bearing and pitch and has lon # lat
C18_Witness ==
  /\ cmd.cmd = "render"
  /\ pre.self.renderer # None
  /\ cmd.raw.bearing = None
  /\ cmd.raw.pitch = None
  /\ cmd.raw.center[1] # cmd.raw.center[2]
  /\ Len(calls) = 1

\* the last line is a render that follows an init with width > 0 and
\* height > 0 (no other init in between)
RenderAfterValidInit ==
  cmd.cmd = "render" /\ lastInit.line > 0 /\ lastInit.valid

\* C15 as stated: such a render succeeds (the engine and the encoder doing
\* their part) iff the style of that init was loadable, whatever the state
\* before the init.
C15_RenderIffLoadable ==
  (RenderAfterValidInit /\ cmd.fate = "ok") =>
    (resp[1].status = "ok" <=> lastInit.loaded)

\* C15 amended: when no earlier init had succeeded, such a render reaches
\* the engine iff the style of that init was loadable, and then succeeds
\* unless the engine or the encoder fails; when an earlier init had
\* succeeded, the render reaches the engine whether or not the style of the
\* later init was loadable.
C15_RenderIffLoadableWhenFresh ==
  RenderAfterValidInit =>
    /\ lastInit.fresh =>
         /\ Len(calls) = 1 <=> lastInit.loaded
         /\ cmd.fate = "ok" => (resp[1].status = "ok" <=> lastInit.loaded)
    /\ ~lastInit.fresh =>
         /\ Len(calls) = 1
         /\ cmd.fate = "ok" => resp[1].status = "ok"
    /\ resp[1].status = "ok" => cmd.fate = "ok"

\* the first init of the run has an unloadable style; the render is refused
C15_Witness ==
  /\ RenderAfterValidInit
  /\ lastInit.fresh
  /\ ~lastInit.loaded
  /\ cmd.fate = "ok"
  /\ resp[1].status = "error"

\* the first init of the run loads its style; the render succeeds
C15_WitnessLoaded ==
  /\ RenderAfterValidInit
  /\ lastInit.fresh
  /\ lastInit.loaded
  /\ resp[1].status = "ok"

\* C17: the loop stops on quit, on end of input and on a read error, and
\* every iteration that does not stop it consumes one line of the (finite)
\* input, so it cannot run for ever; it stops only in those three ways; once
\* it has stopped nothing is decoded, executed or answered any more; stopping
\* on end of input or on a read error runs no cleanup and touches neither
\* the Renderer record nor the files.
C17_TerminatesAndStays ==
  /\ [][running /\ (running' => lineNo' = lineNo + 1)]_vars
  /\ [](lineNo <= MaxLines)
  /\ [](running => (ENABLED EndOfInput /\ ENABLED ReadError))
  /\ [](~running => cmd.cmd \in {"quit", "eof", "read_error"})
  /\ [](cmd.cmd = "quit" => ~running)
  /\ [](cmd.cmd \in {"eof", "read_error"} =>
          /\ ~running
          /\ cleanups = 0
          /\ Self = pre.self
          /\ fs = pre.fs
          /\ resp = <<>>)

\* the same as a liveness property of FairSpec: the loop eventually stops
\* for good
EventuallyStops == <>[](~running)

\* the input ends while a temp file is tracked: the file stays on disk
C17_Witness ==
  /\ ~running
  /\ cmd.cmd = "eof"
  /\ temp_files # <<>>
  /\ \A p \in Range(temp_files) : FileExists(p)
  /\ cleanups = 0

\* the loop has stopped on a quit line
C17_WitnessQuit ==
  /\ ~running
  /\ cmd.cmd = "quit"
  /\ lineNo < MaxLines

====
